---- MODULE Spec2Model ----
(***************************************************************************)
(* Drawdown monitor (mdd_calculator): the price resolver, the history      *)
(* cache, the per-ticker metric computation (src/utils.py) and the batch   *)
(* orchestration of DrawdownApp.refresh_once (src/mdd.py).                 *)
(*                                                                         *)
(* Python values are modelled as records [k, v]: k = "num" with the        *)
(* number in v, k = "nan" for float('nan'), k = "none" for None and        *)
(* k = "str" for a value float() rejects.                                  *)
(***************************************************************************)
EXTENDS Integers, Sequences, FiniteSets, TLC

\* ------------------------------------------------------------------------
\* Bounds of the model
\* ------------------------------------------------------------------------
MaxPresent == 2      \* populated fields of one quote object
MaxBars == 2         \* rows of one intraday / daily bar frame

\* ------------------------------------------------------------------------
\* Python values
\* ------------------------------------------------------------------------
Num(x) == [k |-> "num", v |-> x]
None == [k |-> "none", v |-> 0]
NaN == [k |-> "nan", v |-> 0]
NonNum == [k |-> "str", v |-> 0]

Numbers == {0 - 1, 0, 7}
FieldVals == {Num(x) : x \in Numbers} \cup {NaN, NonNum, None}
BarVals == {Num(x) : x \in Numbers} \cup {NaN}

Range(s) == {s[i] : i \in DOMAIN s}

\* ------------------------------------------------------------------------
\* Market data source: what a query may answer
\* ------------------------------------------------------------------------
FastKeys == <<"last_price", "lastPrice", "regular_market_price",
              "regularMarketPrice", "last_traded_price", "lastTradedPrice",
              "previous_close", "previousClose">>
InfoKeys == <<"currentPrice", "regularMarketPrice",
              "regularMarketPreviousClose", "previousClose", "navPrice">>
BarRequests == <<<<"1d", "1m">>, <<"5d", "5m">>, <<"1mo", "1d">>>>
Sources == <<"fast_info", "info", "1d/1m", "5d/5m", "1mo/1d">>

NoFields == [x \in {} |-> None]

\* a quote object with at most MaxPresent populated fields, the object None,
\* or a fault raised while the property is read
Containers(keys) ==
    {[k |-> "obj", f |-> g] :
        g \in UNION {[S -> FieldVals] :
                 S \in {T \in SUBSET Range(keys) : Cardinality(T) <= MaxPresent}}}
    \cup {[k |-> "none", f |-> NoFields], [k |-> "fault", f |-> NoFields]}

SeqsUpTo(S, n) == UNION {[1..m -> S] : m \in 0..n}

\* a bar frame (with or without a Close column) or a fault raised by history()
Frames ==
    {[k |-> "frame", hasClose |-> TRUE, rows |-> Len(s), close |-> s] :
        s \in SeqsUpTo(BarVals, MaxBars)}
    \cup {[k |-> "frame", hasClose |-> FALSE, rows |-> n, close |-> <<>>] :
        n \in 0..MaxBars}
    \cup {[k |-> "fault", hasClose |-> FALSE, rows |-> 0, close |-> <<>>]}

\* ------------------------------------------------------------------------
\* utils._get_from_container
\* ------------------------------------------------------------------------
\* container.get(k, None), then getattr(container, k); None when both miss
Lookup(container, key) ==
    IF key \in DOMAIN container.f THEN container.f[key] ELSE None

FloatOk(v) == v.k \in {"num", "nan"}

RECURSIVE probe_keys(_, _, _)
probe_keys(container, keys, i) ==
    IF i > Len(keys) THEN None
    ELSE LET v == Lookup(container, keys[i])
         IN IF v # None /\ FloatOk(v) THEN v
            ELSE probe_keys(container, keys, i + 1)

get_from_container(container, keys) ==
    IF container.k = "none" THEN None ELSE probe_keys(container, keys, 1)

\* ------------------------------------------------------------------------
\* utils.get_current_price_any: the tiers
\* ------------------------------------------------------------------------
Truthy(p) == p # None /\ p # Num(0)
\* variant: zero passes the validity test
Positive_nonneg(p) == p.k = "num" /\ p.v >= 0
Positive(p) == p.k = "num" /\ p.v > 0

Returned(p) == [ret |-> p, fault |-> FALSE]
FellThrough == [ret |-> None, fault |-> FALSE]
Swallowed == [ret |-> None, fault |-> TRUE]

\* 1) fast_info
FastInfoTier(fi) ==
    IF fi.k = "fault" THEN Swallowed
    ELSE LET price == get_from_container(fi, FastKeys)
         IN IF Truthy(price) /\ Positive(price) THEN Returned(price)
            ELSE FellThrough

\* 2) info  (info = t.info or {})
InfoTier(info) ==
    IF info.k = "fault" THEN Swallowed
    ELSE LET d == IF info.k = "none" THEN [k |-> "obj", f |-> NoFields] ELSE info
             price == get_from_container(d, InfoKeys)
         IN IF Truthy(price) /\ Positive(price) THEN Returned(price)
            ELSE FellThrough

dropna(s) == SelectSeq(s, LAMBDA x : x # NaN)

\* 3), 4) bars: last non-missing Close
BarsTier(h) ==
    IF h.k = "fault" THEN Swallowed
    ELSE IF h.rows # 0 /\ h.hasClose
         THEN LET d == dropna(h.close)
              IN IF d = <<>> THEN Swallowed     \* iloc[-1] raises IndexError
                 ELSE LET last == d[Len(d)]
                      IN IF last # NaN /\ Positive(last) THEN Returned(last)
                         ELSE FellThrough
         ELSE FellThrough

\* cached images of the tiers over everything the source may answer
FastResponses == Containers(FastKeys)
InfoResponses == Containers(InfoKeys)
TierResponses(n) ==
    IF n = 1 THEN FastResponses ELSE IF n = 2 THEN InfoResponses ELSE Frames
TierOf(n, resp) ==
    IF n = 1 THEN FastInfoTier(resp)
    ELSE IF n = 2 THEN InfoTier(resp) ELSE BarsTier(resp)
FastOutcomes == {FastInfoTier(c) : c \in FastResponses}
InfoOutcomes == {InfoTier(c) : c \in InfoResponses}
BarsOutcomes == {BarsTier(h) : h \in Frames}
TierOutcomes(n) ==
    IF n = 1 THEN FastOutcomes ELSE IF n = 2 THEN InfoOutcomes ELSE BarsOutcomes

\* ------------------------------------------------------------------------
\* Program constants and the data the history source may return
\* ------------------------------------------------------------------------
HISTORY_TTL_SEC == 300
ROUND_DIGITS == 2
MAX_WORKERS == 2

MaxBatches == 2      \* refresh requests served
MaxCalls == 2        \* direct calls of get_history_df
MaxLines == 2        \* lines of the ticker file read by a batch
MaxFileLines == 5    \* lines of a ticker file read on its own
MaxDays == 4         \* rows of a history given to the calculation on its own
MaxTimers == 3       \* refresh timers scheduled

\* ------------------------------------------------------------------------
\* utils.read_tickers_from_file; a line is a sequence of characters
\* ------------------------------------------------------------------------
Upper(c) == IF c = "a" THEN "A" ELSE IF c = "b" THEN "B" ELSE c
IsSpace(c) == c \in {" ", "\n"}

RECURSIVE lstrip(_)
lstrip(l) == IF l # <<>> /\ IsSpace(Head(l)) THEN lstrip(Tail(l)) ELSE l
RECURSIVE rstrip(_)
rstrip(l) ==
    IF l # <<>> /\ IsSpace(l[Len(l)]) THEN rstrip(SubSeq(l, 1, Len(l) - 1)) ELSE l
strip(l) == rstrip(lstrip(l))
upper(l) == [j \in DOMAIN l |-> Upper(l[j])]

\* the lines that survive: stripped, upper-cased, not blank, not a comment
RECURSIVE read_lines(_)
read_lines(lines) ==
    IF lines = <<>> THEN <<>>
    ELSE LET t == upper(strip(Head(lines)))
         IN IF t = <<>> \/ Head(t) = "#" THEN read_lines(Tail(lines))
            ELSE <<t>> \o read_lines(Tail(lines))

\* variant: every surviving line is kept
unique_keep_all(ts, seen) == ts
\* duplicates removed, first occurrence kept
RECURSIVE unique(_, _)
unique(ts, seen) ==
    IF ts = <<>> THEN <<>>
    ELSE IF Head(ts) \in seen THEN unique(Tail(ts), seen)
    ELSE <<Head(ts)>> \o unique(Tail(ts), seen \cup {Head(ts)})

\* variant: the list is returned without the removal of duplicates
read_tickers_keep_duplicates(file) ==
    IF ~file.exists THEN <<>> ELSE read_lines(file.lines)
read_tickers_from_file(file) ==
    IF ~file.exists THEN <<>> ELSE unique(read_lines(file.lines), {})

\* open() or the decoding of a line raises: the path exists but is a
\* directory, is not readable, or does not hold UTF-8 text
read_raises(file) == file.exists /\ ~file.readable

SampleLines == {<<"A", "\n">>, <<"a", "\n">>, <<" ", "b", " ", "\n">>, <<"B">>,
                <<"#", "a", "\n">>, <<" ", "#", "\n">>, <<"\n">>, <<>>}
FilesOf(n) ==
    {[exists |-> TRUE, readable |-> TRUE, lines |-> ls] :
        ls \in SeqsUpTo(SampleLines, n)}
    \cup {[exists |-> FALSE, readable |-> FALSE, lines |-> <<>>],
          [exists |-> TRUE, readable |-> FALSE, lines |-> <<>>]}
Files == FilesOf(MaxLines)
\* what refresh_once gets from read_tickers_from_file
ReadOutcomes(files) ==
    {[raised |-> read_raises(f),
      out |-> IF read_raises(f) THEN <<>> ELSE read_tickers_from_file(f)] :
        f \in files}
FileReads == ReadOutcomes(Files)
TickerLists == {r.out : r \in {x \in FileReads : ~x.raised}}
\* a file of three symbols, its prefixes, and a path that cannot be read
PoolTickers == << <<"A">>, <<"B">>, <<"C">> >>
PoolFiles ==
    {[exists |-> TRUE, readable |-> TRUE,
      lines |-> [j \in 1..n |-> PoolTickers[j] \o <<"\n">>]] : n \in 0..Len(PoolTickers)}
    \cup {[exists |-> TRUE, readable |-> FALSE, lines |-> <<>>]}
PoolReads == ReadOutcomes(PoolFiles)
Tickers == UNION {Range(l) : l \in TickerLists}
Keys == Tickers \X BOOLEAN
\* the instants at which the clock is observed: around one TTL for direct
\* callers of the cache, one TTL apart for the batches of the application
CacheInstants == {0, 1, HISTORY_TTL_SEC}
BatchInstants == {0, HISTORY_TTL_SEC}

HighVals == {Num(100), NaN}
NoDf == [k |-> "none", hasHigh |-> FALSE, rows |-> 0, high |-> <<>>]
\* what history(period="max") may answer: None, a frame (possibly empty,
\* possibly without a High column)
HighColumns == {<<>>} \cup {<<h>> : h \in HighVals}
Histories ==
    {[k |-> "frame", hasHigh |-> TRUE, rows |-> Len(s), high |-> s] :
        s \in HighColumns}
    \cup {[k |-> "frame", hasHigh |-> FALSE, rows |-> 1, high |-> <<>>]}
    \cup {NoDf}

NoEntry == [df |-> NoDf, ts |-> 0 - 1]
NoStore == [key |-> <<<<>>, FALSE>>, at |-> 0 - 1]
NoResult == [k |-> "none"]
NoResp == [k |-> "none"]
PriceError == "current price cannot be determined"
EmptyError == "daily history is empty"
NoHighError == "no High column"
ZeroDivError == "float division by zero"
SourceError == "source fault"
Raised(msg) == [k |-> "exc", e |-> msg]

Status(text, done, total) == [text |-> text, done |-> done, total |-> total]

\* the columns of the table with a heading to click; no column chosen yet
Columns == {"ticker", "current_price", "historical_max",
            "current_draw_down_pct", "recover_ratio", "error"}
NoCol == "none"
NoTimer == 0

IdleTask == [pc |-> "idle", ticker |-> <<>>, adjusted |-> FALSE, price |-> None,
             now |-> 0, cached |-> NoEntry, df |-> NoDf, result |-> NoResult]

VARIABLES
    task,        \* per future / caller: position and locals
    cache,       \* utils._history_cache
    clock,       \* time.time()
    stored_at,   \* key and time of the last store (history variable)
    calls,       \* direct calls of get_history_df made so far
    rlast,       \* the answer of the source to a probed tier
    rlog,        \* sources queried by a resolver call, with their outcomes
    loading, tickers, rows, done_cnt, collector, mainq, status, table, batches,
    current_sort_col, current_sort_asc,   \* column and direction of the table
    after_id,    \* the timer start_refresh_loop recorded last
    timers       \* the refresh timers that are pending in the main loop

vars == <<task, cache, clock, stored_at, calls, rlast, rlog,
          loading, tickers, rows, done_cnt, collector, mainq, status, table,
          batches, current_sort_col, current_sort_asc, after_id, timers>>
sortVars == <<current_sort_col, current_sort_asc>>
timerVars == <<after_id, timers>>
appVars == <<loading, tickers, rows, done_cnt, collector, mainq, status,
             table, batches, sortVars, timerVars>>
cacheVars == <<cache, stored_at>>
probeVars == <<rlast, rlog>>

\* a batch holds one future per distinct ticker
TaskIds == 1..Cardinality(Tickers)
\* the futures of the largest batch of the model
Slots == 1..Len(PoolTickers)

Init ==
    /\ task = [i \in Slots |-> IdleTask]
    /\ cache = [key \in Keys |-> NoEntry]
    /\ clock = 0
    /\ stored_at = NoStore
    /\ calls = 0
    /\ rlast = NoResp
    /\ rlog = <<>>
    /\ loading = FALSE
    /\ tickers = <<>>
    /\ rows = <<>>
    /\ done_cnt = 0
    /\ collector = "idle"
    /\ mainq = <<>>
    /\ status = Status("Ready", 0, 0)
    /\ table = <<>>
    /\ batches = 0
    /\ current_sort_col = NoCol
    /\ current_sort_asc = TRUE
    /\ after_id = 1
    /\ timers = {1}

\* time passes
TickTo(instants) ==
    /\ \E t \in instants :
          /\ t > clock
          /\ clock' = t
    /\ UNCHANGED <<task, cache, stored_at, calls, rlast, rlog, appVars>>

Tick == TickTo(BatchInstants)
CacheTick == TickTo(CacheInstants)

\* ------------------------------------------------------------------------
\* read_tickers_from_file called on its own
\* ------------------------------------------------------------------------
FileRead ==
    /\ rlast = NoResp
    /\ \E f \in {g \in FilesOf(MaxFileLines) : ~read_raises(g)} :
          rlast' = [k |-> "file", file |-> f, out |-> read_tickers_from_file(f)]
    /\ UNCHANGED <<task, cache, clock, stored_at, calls, rlog, appVars>>

FileClose ==
    /\ rlast # NoResp
    /\ rlast' = NoResp
    /\ UNCHANGED <<task, cache, clock, stored_at, calls, rlog, appVars>>

NextFile == FileRead \/ FileClose

SpecFile == Init /\ [][NextFile]_vars

\* ------------------------------------------------------------------------
\* utils.get_current_price_any: control flow over the tiers
\* ------------------------------------------------------------------------
ResolverPc == <<"fast", "info", "bars1", "bars2", "bars3">>

\* variant: a fault in the first intraday request is not caught
resolver_next_uncaught(n, out) ==
    IF out.ret # None THEN "return"
    ELSE IF out.fault /\ n = 3 THEN "raise"
    ELSE IF n < Len(ResolverPc) THEN "next"
    ELSE "raise"
\* what the resolver does once tier n has produced outcome out
resolver_next(n, out) ==
    IF out.ret # None THEN "return"
    ELSE IF n < Len(ResolverPc) THEN "next"
    ELSE "raise"

TierStep(i, n, out) ==
    /\ task[i].pc = ResolverPc[n]
    /\ LET go == resolver_next(n, out)
       IN task' = [task EXCEPT ![i] =
             IF go = "return" THEN [@ EXCEPT !.pc = "hist", !.price = out.ret]
             ELSE IF go = "next" THEN [@ EXCEPT !.pc = ResolverPc[n + 1]]
             ELSE [@ EXCEPT !.pc = "done", !.result = Raised(PriceError)]]

\* the whole call, given what each tier would produce if it were reached:
\* the price returned, or None when the call raises
RECURSIVE resolve_from(_, _)
resolve_from(n, outs) ==
    LET go == resolver_next(n, outs[n])
    IN IF go = "return" THEN outs[n].ret
       ELSE IF go = "next" THEN resolve_from(n + 1, outs)
       ELSE None

PriceResults ==
    {resolve_from(1, outs) :
        outs \in {f \in [1..Len(ResolverPc) -> FastOutcomes \cup InfoOutcomes \cup BarsOutcomes] :
                     \A n \in 1..Len(ResolverPc) : f[n] \in TierOutcomes(n)}}

\* a worker of the pool runs current_price = float(get_current_price_any(ticker))
WorkerResolve(i) ==
    /\ task[i].pc = "price"
    /\ \E p \in PriceResults :
          task' = [task EXCEPT ![i] =
             IF p # None THEN [@ EXCEPT !.pc = "hist", !.price = p]
             ELSE [@ EXCEPT !.pc = "done", !.result = Raised(PriceError)]]
    /\ UNCHANGED <<cache, clock, stored_at, calls, rlast, rlog, appVars>>

\* ------------------------------------------------------------------------
\* The resolver called on its own, with the queried sources recorded
\* ------------------------------------------------------------------------
ResolveCall ==
    /\ task[1].pc \in {"idle", "hist", "done"}
    /\ \E t \in Tickers :
          task' = [task EXCEPT ![1] = [IdleTask EXCEPT !.pc = "fast", !.ticker = t]]
    /\ rlog' = <<>>
    /\ UNCHANGED <<cache, clock, stored_at, calls, rlast, appVars>>

ResolveTier(n) ==
    /\ \E out \in TierOutcomes(n) :
          /\ TierStep(1, n, out)
          /\ rlog' = Append(rlog, [src |-> Sources[n], out |-> out])
    /\ UNCHANGED <<cache, clock, stored_at, calls, rlast, appVars>>

NextResolve ==
    \/ ResolveCall
    \/ \E n \in 1..Len(ResolverPc) : ResolveTier(n)

SpecResolve == Init /\ [][NextResolve]_vars

\* ------------------------------------------------------------------------
\* One tier evaluated on one answer of the source
\* ------------------------------------------------------------------------
ProbeTier(n) ==
    /\ rlast = NoResp
    /\ \E resp \in TierResponses(n) :
          /\ rlast' = resp
          /\ rlog' = <<[src |-> Sources[n], out |-> TierOf(n, resp)]>>
    /\ UNCHANGED <<task, cache, clock, stored_at, calls, appVars>>

ProbeReset ==
    /\ rlast # NoResp
    /\ rlast' = NoResp
    /\ rlog' = <<>>
    /\ UNCHANGED <<task, cache, clock, stored_at, calls, appVars>>

NextProbe ==
    \/ \E n \in 1..Len(Sources) : ProbeTier(n)
    \/ ProbeReset

SpecProbe == Init /\ [][NextProbe]_vars

\* ------------------------------------------------------------------------
\* utils.get_history_df
\* ------------------------------------------------------------------------
KeyOf(i) == <<task[i].ticker, task[i].adjusted>>

\* variant: an entry aged exactly the TTL is still served
CacheLive_inclusive(cached, now) ==
    cached # NoEntry /\ now - cached.ts <= HISTORY_TTL_SEC
\* if cached and now - cached["ts"] < HISTORY_TTL_SEC
CacheLive(cached, now) ==
    cached # NoEntry /\ now - cached.ts < HISTORY_TTL_SEC

\* variant: an empty frame is accepted
Rejected_none_only(d) == d.k = "none"
\* if df is None or df.empty
Rejected(d) == d.k = "none" \/ d.rows = 0

\* now = time.time(); with _cache_lock: look the key up, return a live entry
HistCheck(i) ==
    /\ task[i].pc = "hist"
    /\ LET cached == cache[KeyOf(i)]
       IN task' = [task EXCEPT ![i] =
             IF CacheLive(cached, clock)
             THEN [@ EXCEPT !.pc = "calc", !.df = cached.df]
             ELSE [@ EXCEPT !.pc = "fetch", !.now = clock, !.cached = cached]]
    /\ UNCHANGED <<cache, clock, stored_at, calls, rlast, rlog, appVars>>

\* df = yf.Ticker(ticker).history(period="max", ...), outside the lock
HistFetch(i) ==
    /\ task[i].pc = "fetch"
    /\ \/ task' = [task EXCEPT ![i] =
              [@ EXCEPT !.pc = "done", !.result = Raised(SourceError),
                        !.now = 0, !.cached = NoEntry]]
       \/ \E d \in Histories :
             task' = [task EXCEPT ![i] =
                IF Rejected(d)
                THEN [@ EXCEPT !.pc = "done", !.result = Raised(EmptyError),
                               !.now = 0, !.cached = NoEntry]
                ELSE [@ EXCEPT !.pc = "store", !.df = d]]
    /\ UNCHANGED <<cache, clock, stored_at, calls, rlast, rlog, appVars>>

\* with _cache_lock: _history_cache[key] = {"df": df, "ts": now}; return df
StoreStep(i) ==
    /\ task[i].pc = "store"
    /\ cache' = [cache EXCEPT ![KeyOf(i)] = [df |-> task[i].df, ts |-> task[i].now]]
    /\ task' = [task EXCEPT ![i] =
          [@ EXCEPT !.pc = "calc", !.now = 0, !.cached = NoEntry]]
    /\ UNCHANGED <<clock, calls, rlast, rlog, appVars>>

\* a worker of the pool stores what it fetched
HistStore(i) == StoreStep(i) /\ UNCHANGED stored_at

\* a direct caller stores; the time of the store is recorded
CallerStore(i) == StoreStep(i) /\ stored_at' = [key |-> KeyOf(i), at |-> clock]

\* ------------------------------------------------------------------------
\* get_history_df called directly by concurrent callers
\* ------------------------------------------------------------------------
CacheCall(i) ==
    /\ task[i].pc = "idle"
    /\ calls < MaxCalls
    /\ calls' = calls + 1
    /\ \E t \in Tickers, a \in BOOLEAN :
          task' = [task EXCEPT ![i] =
             [IdleTask EXCEPT !.pc = "hist", !.ticker = t, !.adjusted = a]]
    /\ UNCHANGED <<cache, clock, stored_at, rlast, rlog, appVars>>

CacheReturn(i) ==
    /\ task[i].pc \in {"calc", "done"}
    /\ task' = [task EXCEPT ![i] = IdleTask]
    /\ UNCHANGED <<cache, clock, stored_at, calls, rlast, rlog, appVars>>

NextCache ==
    \/ CacheTick
    \/ \E i \in TaskIds :
          \/ CacheCall(i)
          \/ HistCheck(i)
          \/ HistFetch(i)
          \/ CallerStore(i)
          \/ CacheReturn(i)

SpecCache == Init /\ [][NextCache]_vars

\* ------------------------------------------------------------------------
\* utils.compute_metrics_for_ticker: the drawdown calculation
\* Numbers in a record are in units of 10^-ROUND_DIGITS; raw values are
\* exact fractions n/d.  Highs are non-negative.
\* ------------------------------------------------------------------------
Scale == 10 ^ ROUND_DIGITS
Rat(n, d) == [k |-> "rat", n |-> n, d |-> d]

\* round(n / d, ROUND_DIGITS) for d > 0, ties to even
Round(n, d) ==
    LET m == Scale * n
        q == m \div d
        r == m % d
    IN IF 2 * r < d THEN q
       ELSE IF 2 * r > d THEN q + 1
       ELSE IF q % 2 = 0 THEN q ELSE q + 1

\* variant: the smallest value
SetMax_smallest(S) == CHOOSE m \in S : \A x \in S : m <= x
SetMax(S) == CHOOSE m \in S : \A x \in S : x <= m
HighNums(high, upto) == {high[j].v : j \in {x \in 1..upto : high[x].k = "num"}}

\* series["High"].cummax() at row j (the missing value where High is missing)
PeakToDate(high, j) ==
    IF high[j].k # "num" THEN NaN ELSE Num(SetMax(HighNums(high, j)))

\* The two sides of the mask are binary64 values.  For the Highs and prices
\* of the model, the rounding error of (High / PeakToDate - 1.0) * 100.0 and
\* of ((price - max) / max) * 100.0 against the exact quotient, in units of
\* 2^-53 / 9; the error is far below the distance of two different quotients.
DdToDateErr ==
    <<0, 80>> :> 0 @@ <<0, 90>> :> 0 @@ <<0, 100>> :> 0 @@ <<0, 120>> :> 0 @@
    <<80, 80>> :> 0 @@ <<80, 90>> :> (0 - 400) @@ <<80, 100>> :> 288 @@
    <<80, 120>> :> (0 - 192) @@ <<90, 90>> :> 0 @@ <<90, 100>> :> 144 @@
    <<90, 120>> :> 0 @@ <<100, 100>> :> 0 @@ <<100, 120>> :> 192 @@
    <<120, 120>> :> 0
CurrentDdErr ==
    <<7, 80>> :> 0 @@ <<7, 90>> :> (0 - 512) @@ <<7, 100>> :> 0 @@
    <<7, 120>> :> (0 - 384) @@ <<60, 80>> :> 0 @@ <<60, 90>> :> 384 @@
    <<60, 100>> :> 0 @@ <<60, 120>> :> 0 @@ <<90, 80>> :> 0 @@
    <<90, 90>> :> 0 @@ <<90, 100>> :> 0 @@ <<90, 120>> :> 0 @@
    <<130, 80>> :> 0 @@ <<130, 90>> :> (0 - 128) @@ <<130, 100>> :> 0 @@
    <<130, 120>> :> (0 - 96)

\* a > b for the binary64 values of High / peak and price / max positions:
\* the exact quotients decide, and the rounding errors where they are equal
FloatGreater(h, peak, price, hmax) ==
    \/ (h - peak) * hmax > (price - hmax) * peak
    \/ /\ (h - peak) * hmax = (price - hmax) * peak
       /\ DdToDateErr[<<h, peak>>] > CurrentDdErr[<<price, hmax>>]

\* variant: the days with a deeper running drawdown are counted
Shallower_deeper(high, j, price, hmax) ==
    /\ high[j].k = "num"
    /\ PeakToDate(high, j).v > 0
    /\ (high[j].v - PeakToDate(high, j).v) * hmax
          < (price - hmax) * PeakToDate(high, j).v
\* mask: (High / PeakToDate - 1.0) * 100.0 > current_draw_down; a missing High
\* and 0 / 0 give a missing value, which is greater than nothing
Shallower(high, j, price, hmax) ==
    /\ high[j].k = "num"
    /\ PeakToDate(high, j).v > 0
    /\ FloatGreater(high[j].v, PeakToDate(high, j).v, price, hmax)

MetricRow(ticker, cur, hist, dd, rr, err) ==
    [ticker |-> ticker,
     current_price |-> IF cur = NaN THEN NaN ELSE Num(Round(cur.n, cur.d)),
     historical_max |-> IF hist = NaN THEN NaN ELSE Num(Round(hist.n, hist.d)),
     current_draw_down_pct |-> IF dd = NaN THEN NaN ELSE Num(Round(dd.n, dd.d)),
     recover_ratio |-> IF rr = NaN THEN NaN ELSE Num(Round(rr.n, rr.d)),
     error |-> err,
     cur_raw |-> cur, hist_raw |-> hist, dd_raw |-> dd, rr_raw |-> rr]

\* lines 146-175, reached with the price and the history in hand
compute_metrics(ticker, price, df) ==
    IF ~df.hasHigh THEN Raised(NoHighError)
    ELSE LET nums == HighNums(df.high, Len(df.high))
             row_count == Len(df.high)
         IN IF nums # {} /\ SetMax(nums) = 0 THEN Raised(ZeroDivError)
            ELSE LET hmax == IF nums = {} THEN NaN ELSE Rat(SetMax(nums), 1)
                     dd == IF hmax = NaN THEN NaN
                           ELSE Rat((price.v - hmax.n) * 100, hmax.n)
                     true_count ==
                        IF hmax = NaN THEN 0
                        ELSE Cardinality({j \in 1..row_count :
                                 Shallower(df.high, j, price.v, hmax.n)})
                     rr == IF row_count = 0 THEN NaN
                           ELSE Rat(true_count * 100, row_count)
                 IN [k |-> "ok",
                     m |-> MetricRow(ticker, Rat(price.v, 1), hmax, dd, rr, "")]

\* the record worker_collect builds when the future raised
ErrorRow(ticker, e) == MetricRow(ticker, NaN, NaN, NaN, NaN, e)

\* ------------------------------------------------------------------------
\* mdd.DrawdownApp.refresh_once and its collector thread
\* ------------------------------------------------------------------------
Min(a, b) == IF a < b THEN a ELSE b
\* variant: one worker per ticker
max_workers_per_ticker(n) == IF n = 0 THEN 1 ELSE n
\* min(MAX_WORKERS, len(tickers)) or 1
max_workers(n) == IF Min(MAX_WORKERS, n) = 0 THEN 1 ELSE Min(MAX_WORKERS, n)

Batch == 1..Len(tickers)
Running == {i \in Batch : task[i].pc \notin {"idle", "queued", "done", "collected"}}

\* variant: refresh_once without the test of loading
refresh_once_unguarded(read) ==
    /\ batches < MaxBatches
    /\ batches' = batches + 1
    /\ IF read.raised
       THEN /\ loading' = TRUE
            /\ status' = Status("Loading...", 0, 0)
            /\ UNCHANGED <<tickers, task, rows, done_cnt, collector, table>>
       ELSE IF read.out = <<>>
       THEN /\ status' = Status("No tickers", 0, 0)
            /\ table' = <<>>
            /\ UNCHANGED <<loading, tickers, task, rows, done_cnt, collector>>
       ELSE /\ loading' = TRUE
            /\ status' = Status("Loading...", 0, 0)
            /\ tickers' = read.out
            /\ task' = [i \in Slots |->
                  IF i <= Len(read.out)
                  THEN [IdleTask EXCEPT !.pc = "queued", !.ticker = read.out[i]]
                  ELSE IdleTask]
            /\ rows' = <<>>
            /\ done_cnt' = 0
            /\ collector' = "collecting"
            /\ UNCHANGED table

\* refresh_once, given what read_tickers_from_file does on the file; the
\* caller says what becomes of the timers
refresh_once(read) ==
    IF loading
    THEN /\ ~read.raised
         /\ UNCHANGED <<loading, status, tickers, task, rows, done_cnt,
                        collector, table, batches>>
    ELSE /\ batches < MaxBatches
         /\ batches' = batches + 1
         /\ IF read.raised
            THEN /\ loading' = TRUE
                 /\ status' = Status("Loading...", 0, 0)
                 /\ UNCHANGED <<tickers, task, rows, done_cnt, collector, table>>
            ELSE IF read.out = <<>>
            THEN /\ status' = Status("No tickers", 0, 0)
                 /\ table' = <<>>
                 /\ UNCHANGED <<loading, tickers, task, rows, done_cnt,
                                collector>>
            ELSE /\ loading' = TRUE
                 /\ status' = Status("Loading...", 0, 0)
                 /\ tickers' = read.out
                 /\ task' = [i \in Slots |->
                       IF i <= Len(read.out)
                       THEN [IdleTask EXCEPT !.pc = "queued",
                                             !.ticker = read.out[i]]
                       ELSE IdleTask]
                 /\ rows' = <<>>
                 /\ done_cnt' = 0
                 /\ collector' = "collecting"
                 /\ UNCHANGED table

\* the exception of the read leaves refresh_once and its caller
RefreshRaised(read) == ~loading /\ read.raised

\* while loading, refresh_once returns before it reads the file
NotRead == [raised |-> FALSE, out |-> <<>>]
ReadsNow(reads) == IF loading THEN {NotRead} ELSE reads

\* a request to refresh, whoever makes it
RefreshOnce ==
    /\ \E read \in ReadsNow(FileReads) : refresh_once(read)
    /\ UNCHANGED <<cache, clock, stored_at, calls, rlast, rlog, mainq,
                   sortVars, timerVars>>

\* a pool thread takes the oldest queued future and enters
\* compute_metrics_for_ticker
StartTask(i) ==
    /\ i \in Batch
    /\ task[i].pc = "queued"
    /\ \A j \in 1..(i - 1) : task[j].pc # "queued"
    /\ Cardinality(Running) < max_workers(Len(tickers))
    /\ task' = [task EXCEPT ![i].pc = "price"]
    /\ UNCHANGED <<cache, clock, stored_at, calls, rlast, rlog, appVars>>

\* the rest of compute_metrics_for_ticker once get_history_df has returned
CalcStep(i) ==
    /\ task[i].pc = "calc"
    /\ task' = [task EXCEPT ![i] =
          [@ EXCEPT !.pc = "done",
                    !.result = compute_metrics(task[i].ticker, task[i].price,
                                               task[i].df)]]
    /\ UNCHANGED <<cache, clock, stored_at, calls, rlast, rlog, appVars>>

Calc(i) ==
    /\ i \in Batch
    /\ collector = "collecting"
    /\ CalcStep(i)

\* ------------------------------------------------------------------------
\* The calculation on its own: one history, two current prices
\* ------------------------------------------------------------------------
CalcHighs == {NaN} \cup {Num(h) : h \in {0, 80, 90, 100, 120}}
CalcPrices == {60, 90, 130}
CalcHistories ==
    {[k |-> "frame", hasHigh |-> TRUE, rows |-> Len(hs), high |-> hs] :
        hs \in SeqsUpTo(CalcHighs, MaxDays) \ {<<>>}}
    \cup {[k |-> "frame", hasHigh |-> FALSE, rows |-> 1, high |-> <<>>]}

CalcCall ==
    /\ \A i \in TaskIds : task[i].pc = "idle"
    /\ \E df \in CalcHistories, p1, p2 \in CalcPrices :
          /\ p1 <= p2
          /\ task' = [i \in DOMAIN task |->
                IF i \in TaskIds
                THEN [IdleTask EXCEPT !.pc = "calc", !.ticker = <<"A">>,
                                      !.df = df,
                                      !.price = Num(IF i = 1 THEN p1 ELSE p2)]
                ELSE task[i]]
    /\ UNCHANGED <<cache, clock, stored_at, calls, rlast, rlog, appVars>>

CalcReturn ==
    /\ \A i \in TaskIds : task[i].pc = "done"
    /\ task' = [i \in DOMAIN task |-> IF i \in TaskIds THEN IdleTask ELSE task[i]]
    /\ UNCHANGED <<cache, clock, stored_at, calls, rlast, rlog, appVars>>

NextCalc ==
    \/ CalcCall
    \/ \E i \in TaskIds : CalcStep(i)
    \/ CalcReturn

SpecCalc == Init /\ [][NextCalc]_vars

\* a collector without the except clause: a future that raised leaves no row
Collect_drop_faulted(i) ==
    /\ collector = "collecting"
    /\ i \in Batch
    /\ task[i].pc = "done"
    /\ rows' = IF task[i].result.k = "ok"
               THEN Append(rows, task[i].result.m) ELSE rows
    /\ done_cnt' = done_cnt + 1
    /\ mainq' = Append(mainq, [k |-> "status",
                               s |-> Status("Loading...", done_cnt + 1, Len(tickers))])
    /\ task' = [task EXCEPT ![i] = [IdleTask EXCEPT !.pc = "collected"]]
    /\ UNCHANGED <<cache, clock, stored_at, calls, rlast, rlog,
                   loading, tickers, collector, status, table, batches,
                   sortVars, timerVars>>

\* variant: the progress is posted before the count is raised
Collect_count_late(i) ==
    /\ collector = "collecting"
    /\ i \in Batch
    /\ task[i].pc = "done"
    /\ LET r == task[i].result
           m == IF r.k = "ok" THEN r.m ELSE ErrorRow(tickers[i], r.e)
       IN rows' = Append(rows, m)
    /\ done_cnt' = done_cnt + 1
    /\ mainq' = Append(mainq, [k |-> "status",
                               s |-> Status("Loading...", done_cnt, Len(tickers))])
    /\ task' = [task EXCEPT ![i] = [IdleTask EXCEPT !.pc = "collected"]]
    /\ UNCHANGED <<cache, clock, stored_at, calls, rlast, rlog,
                   loading, tickers, collector, status, table, batches,
                   sortVars, timerVars>>

\* one turn of the as_completed loop
Collect(i) ==
    /\ collector = "collecting"
    /\ i \in Batch
    /\ task[i].pc = "done"
    /\ LET r == task[i].result
           m == IF r.k = "ok" THEN r.m ELSE ErrorRow(tickers[i], r.e)
       IN rows' = Append(rows, m)
    /\ done_cnt' = done_cnt + 1
    /\ mainq' = Append(mainq, [k |-> "status",
                               s |-> Status("Loading...", done_cnt + 1, Len(tickers))])
    /\ task' = [task EXCEPT ![i] = [IdleTask EXCEPT !.pc = "collected"]]
    /\ UNCHANGED <<cache, clock, stored_at, calls, rlast, rlog,
                   loading, tickers, collector, status, table, batches,
                   sortVars, timerVars>>

\* the pool is shut down and on_main_thread is posted to the main loop
CollectorFinish ==
    /\ collector = "collecting"
    /\ \A i \in Batch : task[i].pc = "collected"
    /\ mainq' = Append(mainq, [k |-> "deliver", s |-> Status("Last update", 0, 0)])
    /\ collector' = "idle"
    /\ task' = [i \in Slots |-> IdleTask]
    /\ UNCHANGED <<cache, clock, stored_at, calls, rlast, rlog,
                   loading, tickers, rows, done_cnt, status, table, batches,
                   sortVars, timerVars>>

\* df.sort_values(by="recover_ratio", ascending=False, na_position="last"):
\* the orders in which no row precedes a row that must come before it
Before(a, b) ==
    \/ a.recover_ratio # NaN /\ b.recover_ratio = NaN
    \/ /\ a.recover_ratio # NaN /\ b.recover_ratio # NaN
       /\ a.recover_ratio.v > b.recover_ratio.v
Orders(rs, before(_, _)) ==
    {t \in [1..Len(rs) -> Range(rs)] :
        /\ \E p \in [1..Len(rs) -> 1..Len(rs)] :
              /\ \A x, y \in 1..Len(rs) : x # y => p[x] # p[y]
              /\ \A x \in 1..Len(rs) : t[x] = rs[p[x]]
        /\ \A x, y \in 1..Len(rs) : x < y => ~before(t[y], t[x])}
SortedDefault(rs) == Orders(rs, Before)

\* the value a row is sorted by: the raw copy of a numeric column, the text
\* of the ticker or error column
col_map_raw(col) ==
    CASE col = "current_price" -> "cur_raw"
      [] col = "historical_max" -> "hist_raw"
      [] col = "current_draw_down_pct" -> "dd_raw"
      [] col = "recover_ratio" -> "rr_raw"
      [] OTHER -> col
ErrorTexts == <<"", PriceError, EmptyError, ZeroDivError, NoHighError, SourceError>>
\* the place of a text among the texts of its column, in string order
TextRank(col, text) ==
    IF col = "ticker"
    THEN CHOOSE n \in 1..Len(PoolTickers) : PoolTickers[n] = text
    ELSE CHOOSE n \in 1..Len(ErrorTexts) : ErrorTexts[n] = text
IsNumeric(col) == col_map_raw(col) # col
SortValue(col, m) ==
    IF IsNumeric(col) THEN m[col_map_raw(col)] ELSE Num(TextRank(col, m[col]))
ValueLess(a, b) ==
    IF a.k = "rat" THEN a.n * b.d < b.n * a.d ELSE a.v < b.v

\* _apply_sort_to_dataframe: sort_values(by=sort_col, ascending=asc,
\* na_position="last")
FrameBefore(col, asc, a, b) ==
    LET ka == SortValue(col, a)
        kb == SortValue(col, b)
    IN \/ ka # NaN /\ kb = NaN
       \/ /\ ka # NaN /\ kb # NaN
          /\ IF asc THEN ValueLess(ka, kb) ELSE ValueLess(kb, ka)
apply_sort_to_dataframe(rs, col, asc) ==
    LET before(a, b) == FrameBefore(col, asc, a, b)
    IN Orders(rs, before)

\* _sort_tree_in_place: sort_key gives (1, 0) for a missing value and (0, k)
\* otherwise; items.sort(key=sort_key, reverse=not asc) is stable
KeyLess(ka, kb) ==
    \/ ka # NaN /\ kb = NaN
    \/ ka # NaN /\ kb # NaN /\ ValueLess(ka, kb)
TreeBefore(rs, col, asc, x, y) ==
    LET ka == SortValue(col, rs[x])
        kb == SortValue(col, rs[y])
        first == IF asc THEN KeyLess(ka, kb) ELSE KeyLess(kb, ka)
        second == IF asc THEN KeyLess(kb, ka) ELSE KeyLess(ka, kb)
    IN first \/ (~second /\ x < y)
sort_tree_in_place(rs, col, asc) ==
    [n \in 1..Len(rs) |->
        rs[CHOOSE x \in 1..Len(rs) :
              Cardinality({y \in 1..Len(rs) : TreeBefore(rs, col, asc, y, x)})
                 = n - 1]]

\* on_heading_click: the same column again turns the direction round
HeadingClick(col) ==
    /\ current_sort_col' = col
    /\ current_sort_asc' = IF current_sort_col = col THEN ~current_sort_asc ELSE TRUE
    /\ table' = sort_tree_in_place(table, col,
                   IF current_sort_col = col THEN ~current_sort_asc ELSE TRUE)
    /\ UNCHANGED <<task, cache, clock, stored_at, calls, rlast, rlog,
                   loading, tickers, rows, done_cnt, collector, mainq, status,
                   batches, timerVars>>

\* the Tk main loop runs the callbacks posted with after(0, ...), in order
MainLoop ==
    /\ mainq # <<>>
    /\ mainq' = Tail(mainq)
    /\ IF Head(mainq).k = "status"
       THEN /\ status' = Head(mainq).s
            /\ UNCHANGED <<loading, table, tickers, rows, done_cnt>>
       ELSE /\ table' \in IF current_sort_col = NoCol
                          THEN SortedDefault(rows)
                          ELSE apply_sort_to_dataframe(rows, current_sort_col,
                                                       current_sort_asc)
            /\ status' = Head(mainq).s
            /\ loading' = FALSE
            /\ tickers' = <<>>
            /\ rows' = <<>>
            /\ done_cnt' = 0
    /\ UNCHANGED <<task, cache, clock, stored_at, calls, rlast, rlog,
                   collector, batches, sortVars, timerVars>>

Next ==
    \/ RefreshOnce
    \/ Tick
    \/ \E i \in TaskIds :
          \/ StartTask(i)
          \/ i \in Batch /\ WorkerResolve(i)
          \/ i \in Batch /\ HistCheck(i)
          \/ i \in Batch /\ HistFetch(i)
          \/ i \in Batch /\ HistStore(i)
          \/ Calc(i)
          \/ Collect(i)
    \/ CollectorFinish
    \/ MainLoop

Spec == Init /\ [][Next]_vars

\* ------------------------------------------------------------------------
\* The window: the refresh timer, the buttons, the headings, and the batch
\* with compute_metrics_for_ticker run as one step per ticker (the source
\* answers within the step, the history cache is left aside)
\* ------------------------------------------------------------------------
OneRowHistory(h) == [k |-> "frame", hasHigh |-> TRUE, rows |-> 1, high |-> <<h>>]
TwoRowHistory(a, b) ==
    [k |-> "frame", hasHigh |-> TRUE, rows |-> 2, high |-> <<a, b>>]
\* a price and a history, or no price from any tier
UiInputs == {[price |-> Num(7), df |-> OneRowHistory(Num(100))],
             [price |-> None, df |-> NoDf]}
SortInputs ==
    {[price |-> Num(p), df |-> TwoRowHistory(Num(120), Num(80))] : p \in {60, 90}}
    \cup {[price |-> Num(60), df |-> OneRowHistory(NaN)],
          [price |-> None, df |-> NoDf]}

WorkerRun(i, inputs) ==
    /\ i \in Batch
    /\ collector = "collecting"
    /\ task[i].pc = "price"
    /\ \E in \in inputs :
          task' = [task EXCEPT ![i] =
             [@ EXCEPT !.pc = "done",
                       !.result = IF in.price = None THEN Raised(PriceError)
                                  ELSE compute_metrics(task[i].ticker,
                                                       in.price, in.df)]]
    /\ UNCHANGED <<cache, clock, stored_at, calls, rlast, rlog, appVars>>

\* variant: the recorded timer is not cancelled
start_refresh_loop_keep(pending) ==
    /\ after_id < MaxTimers
    /\ timers' = pending \cup {after_id + 1}
    /\ after_id' = after_id + 1
\* start_refresh_loop, the timers in pending being those of the main loop:
\* after_cancel(after_id), then after(refresh_sec * 1000, ...); Tk numbers
\* its timers upwards
start_refresh_loop(pending) ==
    LET kept == IF after_id # NoTimer THEN pending \ {after_id} ELSE pending
    IN /\ after_id < MaxTimers
       /\ timers' = kept \cup {after_id + 1}
       /\ after_id' = after_id + 1

\* the Refresh Now button
RefreshNow ==
    /\ \E read \in ReadsNow(PoolReads) : refresh_once(read)
    /\ UNCHANGED <<cache, clock, stored_at, calls, rlast, rlog, mainq,
                   sortVars, timerVars>>

\* _refresh_loop_callback, run by the main loop when a timer is due
TimerFire ==
    /\ \E t \in timers, read \in ReadsNow(PoolReads) :
          /\ refresh_once(read)
          /\ IF RefreshRaised(read)
             THEN timers' = timers \ {t} /\ UNCHANGED after_id
             ELSE start_refresh_loop(timers \ {t})
    /\ UNCHANGED <<cache, clock, stored_at, calls, rlast, rlog, mainq, sortVars>>

\* on_apply with a path and an interval of at least 5 (otherwise a warning
\* is shown and nothing changes)
OnApply ==
    /\ \E read \in ReadsNow(PoolReads) :
          /\ refresh_once(read)
          /\ IF RefreshRaised(read)
             THEN UNCHANGED timerVars
             ELSE start_refresh_loop(timers)
    /\ UNCHANGED <<cache, clock, stored_at, calls, rlast, rlog, mainq, sortVars>>

UiProgress ==
    \/ \E i \in Slots :
          \/ StartTask(i)
          \/ WorkerRun(i, UiInputs)
          \/ Collect(i)
    \/ CollectorFinish
    \/ MainLoop

NextUi ==
    \/ RefreshNow
    \/ TimerFire
    \/ OnApply
    \/ \E i \in Slots :
          \/ StartTask(i)
          \/ WorkerRun(i, UiInputs)
          \/ Collect(i)
    \/ CollectorFinish
    \/ MainLoop

SpecUi == Init /\ [][NextUi]_vars
\* the threads are scheduled fairly
SpecUiLive == SpecUi /\ WF_vars(UiProgress)

\* the table under heading clicks and deliveries
NextSort ==
    \/ RefreshOnce
    \/ \E i \in TaskIds :
          \/ StartTask(i)
          \/ WorkerRun(i, SortInputs)
          \/ Collect(i)
    \/ CollectorFinish
    \/ MainLoop
    \/ \E col \in Columns : HeadingClick(col)

SpecSort == Init /\ [][NextSort]_vars

\* every step of the pool threads, the collector thread and the main loop;
\* the threads are scheduled fairly and every call into the source returns
Progress ==
    \/ \E i \in TaskIds :
          \/ StartTask(i)
          \/ i \in Batch /\ WorkerResolve(i)
          \/ i \in Batch /\ HistCheck(i)
          \/ i \in Batch /\ HistFetch(i)
          \/ i \in Batch /\ HistStore(i)
          \/ Calc(i)
          \/ Collect(i)
    \/ CollectorFinish
    \/ MainLoop

SpecLive == Spec /\ WF_vars(Progress)

\* the collector has posted on_main_thread: the result is handed over
Handed == loading /\ collector = "idle"
OneRecordEach ==
    /\ Len(rows) = Len(tickers)
    /\ \A i \in 1..Len(tickers) :
          Cardinality({j \in 1..Len(rows) : rows[j].ticker = tickers[i]}) = 1

\* C2: for a batch over a non-empty ticker list, with every per-ticker
\* computation terminating, every input ticker eventually yields exactly one
\* record: when the result is handed to the presentation layer no ticker is
\* missing and none appears twice.
C2_EveryTickerOneRecord ==
    /\ [](Handed => OneRecordEach)
    /\ ((loading /\ tickers # <<>>) ~> Handed)

C2_Witness ==
    /\ Handed
    /\ Len(tickers) = 2
    /\ rows[1].ticker = tickers[2]
    /\ rows[1].error = ""
    /\ rows[2].error # ""

Numerics(m) ==
    {m.current_price, m.historical_max, m.current_draw_down_pct, m.recover_ratio}
Populated(m) == NaN \notin Numerics(m)
Missing(m) == Numerics(m) = {NaN}

\* the rows of the batch whose ticker failed at every tier of the resolver
PriceFailed == {j \in 1..Len(rows) : rows[j].error = PriceError}

\* C1: batch isolation.  In a batch of N distinct tickers where one ticker
\* fails at every tier of the price resolver and no other ticker raises a
\* fault, the result handed over has exactly N records, the failing ticker's
\* record has a non-empty error and all four numeric fields missing, and
\* every other record has an empty error and all four numeric fields
\* populated, whatever the order of completion.
C1_BatchIsolation ==
    (/\ Handed
     /\ Cardinality(PriceFailed) = 1
     /\ \A j \in 1..Len(rows) : j \notin PriceFailed => rows[j].error = "")
    => /\ Len(rows) = Len(tickers)
       /\ \A j \in 1..Len(rows) :
             IF j \in PriceFailed
             THEN rows[j].error # "" /\ Missing(rows[j])
             ELSE rows[j].error = "" /\ Populated(rows[j])

\* C3: every record a batch produces, from the success path of
\* compute_metrics_for_ticker or from the fallback of worker_collect, has
\* either an empty error with all four numeric fields populated, or a
\* non-empty error with all four numeric fields missing.
C3_RecordAllOrNothing ==
    \A j \in 1..Len(rows) :
        \/ rows[j].error = "" /\ Populated(rows[j])
        \/ rows[j].error # "" /\ Missing(rows[j])

\* ------------------------------------------------------------------------
\* Claims about the history cache
\* ------------------------------------------------------------------------
\* caller i takes the step that looks the key up
Checks(i) == task[i].pc = "hist" /\ task'[i] # task[i]
Hit(i) == Checks(i) /\ task'[i].pc = "calc"
Miss(i) == Checks(i) /\ task'[i].pc = "fetch"
Stores(i) == task[i].pc = "store" /\ task'[i].pc = "calc"
FetchFails(i) == task[i].pc = "fetch" /\ task'[i].pc = "done"

\* C7: of two calls of get_history_df for the same key, the second made less
\* than HISTORY_TTL_SEC after the first succeeded, the second returns the
\* history the first stored and fetches nothing from the source.
C7_IdempotentWithinTTL ==
    [][\A i \in TaskIds :
          (/\ Checks(i)
           /\ stored_at.key = KeyOf(i)
           /\ clock - stored_at.at < HISTORY_TTL_SEC)
          => (Hit(i) /\ task'[i].df = cache[KeyOf(i)].df)]_vars

\* C8: get_history_df serves a cached history only while now - ts < TTL for
\* the key's entry; at an age of TTL or more (exactly TTL included) it fetches
\* again and, on success, replaces the entry of that key, and of that key
\* only, by the fetched history with the call's timestamp.
C8_ServeOnlyLiveEntries ==
    [][\A i \in TaskIds :
          /\ Hit(i) => /\ cache[KeyOf(i)] # NoEntry
                       /\ clock - cache[KeyOf(i)].ts < HISTORY_TTL_SEC
                       /\ task'[i].df = cache[KeyOf(i)].df
                       /\ cache' = cache
          /\ (Checks(i) /\ cache[KeyOf(i)] # NoEntry
                /\ clock - cache[KeyOf(i)].ts >= HISTORY_TTL_SEC) => Miss(i)
          /\ Stores(i) =>
                /\ cache'[KeyOf(i)] = [df |-> task[i].df, ts |-> task[i].now]
                /\ task'[i].df = task[i].df
                /\ \A key \in Keys \ {KeyOf(i)} : cache'[key] = cache[key]]_vars

\* a caller found an entry aged exactly the TTL, fetched a different history
\* and is about to replace the entry
C8_Witness ==
    \E i \in TaskIds :
       /\ task[i].pc = "store"
       /\ task[i].cached # NoEntry
       /\ task[i].cached = cache[KeyOf(i)]
       /\ task[i].now - task[i].cached.ts = HISTORY_TTL_SEC
       /\ task[i].df # task[i].cached.df

\* C9: for concurrent callers on one key, no other caller's store to the key
\* falls between a caller's expired-check and that caller's own store: the
\* entry a caller overwrites is the one it saw when it checked.
C9_NoLostUpdate ==
    [][\A i \in TaskIds :
          Stores(i) => cache[KeyOf(i)] = task[i].cached]_vars

\* C10: when the source returns no history or an empty one, get_history_df
\* fails and leaves the cache unchanged; every entry of the cache holds a
\* non-empty history, and compute_metrics_for_ticker never runs the drawdown
\* calculation on a zero-row history.
C10_EmptyHistoryRejected ==
    /\ [](\A key \in Keys :
             cache[key] # NoEntry =>
                cache[key].df.k = "frame" /\ cache[key].df.rows > 0)
    /\ [](\A i \in TaskIds :
             task[i].pc \in {"store", "calc"} =>
                task[i].df.k = "frame" /\ task[i].df.rows > 0)
    /\ [][\A i \in TaskIds :
             (FetchFails(i) => cache' = cache)
             /\ (task[i].pc = "fetch" /\ task'[i].pc = "store"
                   => task'[i].df.rows > 0)]_vars

\* a worker failed on an empty history while the cache held an entry
C10_Witness ==
    \E i \in TaskIds :
       /\ task[i].pc = "done"
       /\ task[i].result = Raised(EmptyError)
       /\ cache[KeyOf(i)] # NoEntry

ResolverReturned == task[1].pc = "hist"
ResolverRaised == task[1].pc = "done"
AllTiersFailed ==
    /\ Len(rlog) = Len(Sources)
    /\ \A j \in 1..Len(rlog) : rlog[j].out.ret = None

\* C4: get_current_price_any consults fast snapshot, extended info, 1d/1m,
\* 5d/5m and 1mo/1d bars in this fixed order, returns the value of the first
\* source that yields a usable price, queries no source after one has
\* succeeded, and returns only strictly positive prices.
C4_TierOrderFirstSuccess ==
    /\ Len(rlog) <= Len(Sources)
    /\ \A j \in 1..Len(rlog) : rlog[j].src = Sources[j]
    /\ \A j \in 1..(Len(rlog) - 1) : rlog[j].out.ret = None
    /\ (rlog # <<>> /\ rlog[Len(rlog)].out.ret # None) => ResolverReturned
    /\ ResolverReturned =>
          /\ rlog # <<>>
          /\ task[1].price = rlog[Len(rlog)].out.ret
          /\ task[1].price.k = "num"
          /\ task[1].price.v > 0

C4_Witness ==
    /\ ResolverReturned
    /\ Len(rlog) = 4
    /\ task[1].price = Num(7)

\* the first field of keys, in probe order, that is present, numeric and
\* strictly positive
RECURSIVE first_positive(_, _, _)
first_positive(container, keys, i) ==
    IF i > Len(keys) THEN None
    ELSE LET v == Lookup(container, keys[i])
         IN IF v.k = "num" /\ v.v > 0 THEN v
            ELSE first_positive(container, keys, i + 1)

\* C5: in the fast-snapshot tier and in the extended-info tier the result is
\* the value of the first field, in probe order, that is present, numeric
\* and strictly positive; the tier falls through only if no field of its
\* probe list satisfies all three conditions.
C5_FirstPositiveField ==
    (/\ rlog # <<>>
     /\ rlog[1].src \in {"fast_info", "info"}
     /\ rlast.k \in {"obj", "none"})
    => rlog[1].out.ret =
          first_positive(rlast,
              IF rlog[1].src = "fast_info" THEN FastKeys ELSE InfoKeys, 1)

\* C6: a fault raised while a tier is evaluated never escapes the resolver
\* and never prevents the remaining tiers from being tried; the resolver
\* fails if and only if all tiers were tried and none yielded a usable price.
C6_FaultsSwallowed ==
    /\ ResolverRaised <=> AllTiersFailed
    /\ ResolverRaised => task[1].result = Raised(PriceError)
    /\ \A j \in 1..Len(rlog) :
          (rlog[j].out.fault /\ j < Len(Sources)) =>
             \/ Len(rlog) > j
             \/ task[1].pc = ResolverPc[j + 1]

C6_Witness ==
    /\ ResolverReturned
    /\ Len(rlog) = Len(Sources)
    /\ \A j \in 1..4 : rlog[j].out.fault

\* ------------------------------------------------------------------------
\* Claims about the ticker file
\* ------------------------------------------------------------------------
\* a line as the result shows it: trimmed and upper-cased
Symbol(l) == upper(strip(l))
\* the lines that contribute: not blank, not a comment, and no earlier line
\* gives the same symbol
FirstSeen(lines) ==
    {j \in 1..Len(lines) :
        /\ Symbol(lines[j]) # <<>>
        /\ Head(Symbol(lines[j])) # "#"
        /\ \A i \in 1..(j - 1) : Symbol(lines[i]) # Symbol(lines[j])}
FileWasRead == rlast.k = "file"

\* C16: read_tickers_from_file returns the trimmed, upper-cased lines without
\* the blank lines and the lines beginning with '#', each symbol once, at the
\* place of its first occurrence; a missing file gives the empty list.
C16_TickerFileNormalised ==
    FileWasRead =>
       LET lines == rlast.file.lines
           out == rlast.out
           F == FirstSeen(lines)
       IN /\ Len(out) = Cardinality(F)
          /\ \A j \in F :
                out[Cardinality({i \in F : i <= j})] = Symbol(lines[j])
          /\ \A x, y \in 1..Len(out) : x # y => out[x] # out[y]

\* the lines A, a, # a, blank, B give exactly [A, B]
C16_Witness ==
    /\ FileWasRead
    /\ rlast.file.lines =
          << <<"A", "\n">>, <<"a", "\n">>, <<"#", "a", "\n">>, <<"\n">>, <<"B">> >>
    /\ rlast.out = << <<"A">>, <<"B">> >>

\* ------------------------------------------------------------------------
\* Claims about the drawdown calculation
\* ------------------------------------------------------------------------
CalcDone(i) == task[i].pc = "done"
HighValues(df) == {df.high[j].v : j \in {x \in DOMAIN df.high : df.high[x].k = "num"}}
MaxHigh(df) == CHOOSE m \in HighValues(df) : \A x \in HighValues(df) : m >= x
PositiveHighs(df) ==
    /\ df.hasHigh
    /\ df.rows > 0
    /\ \A j \in DOMAIN df.high : df.high[j].k = "num" /\ df.high[j].v > 0
\* running maximum of High through day d, for a history of positive Highs
RunningMax(df, d) ==
    CHOOSE m \in {df.high[j].v : j \in 1..d} :
        \A j \in 1..d : m >= df.high[j].v
\* the days whose running drawdown is strictly greater than the current one
ShallowerDays(df, price) ==
    {d \in DOMAIN df.high :
        (df.high[d].v - RunningMax(df, d)) * MaxHigh(df)
            > (price - MaxHigh(df)) * RunningMax(df, d)}

\* C11: for a non-empty history with a High field the record's historical
\* maximum is the maximum of High over the whole history (the raw copy
\* exactly, the displayed copy rounded); without a High field the
\* computation fails instead of producing numeric fields.
C11_HistoricalMaxIsMaxHigh ==
    \A i \in TaskIds :
        CalcDone(i) =>
           LET df == task[i].df
               r == task[i].result
           IN /\ ~df.hasHigh => r = Raised(NoHighError)
              /\ (df.hasHigh /\ HighValues(df) # {} /\ MaxHigh(df) > 0) =>
                    /\ r.k = "ok"
                    /\ r.m.hist_raw = Rat(MaxHigh(df), 1)
                    /\ r.m.historical_max = Num(Scale * MaxHigh(df))
              /\ (df.hasHigh /\ HighValues(df) = {}) =>
                    r.k = "ok" /\ r.m.historical_max = NaN

\* the maximum is neither the first nor the last High
C11_Witness ==
    /\ CalcDone(1)
    /\ task[1].df.high = <<Num(90), Num(120), Num(80)>>
    /\ task[1].result.k = "ok"
    /\ task[1].result.m.historical_max = Num(12000)

\* C12: for a non-empty history of positive Highs and any current price the
\* recovery ratio is 100 * (number of days whose running drawdown
\* (High / running max - 1) * 100 is strictly greater than the current
\* drawdown (price - max) / max * 100) / (number of days), every running
\* drawdown being <= 0.
C12_RecoveryRatioFormula ==
    \A i \in TaskIds :
        (CalcDone(i) /\ PositiveHighs(task[i].df)) =>
           LET df == task[i].df
               p == task[i].price.v
               r == task[i].result
           IN /\ r.k = "ok"
              /\ \A d \in DOMAIN df.high : df.high[d].v <= RunningMax(df, d)
              /\ r.m.hist_raw = Rat(MaxHigh(df), 1)
              /\ r.m.dd_raw = Rat((p - MaxHigh(df)) * 100, MaxHigh(df))
              /\ r.m.rr_raw =
                    Rat(100 * Cardinality(ShallowerDays(df, p)), df.rows)

\* C13: on a fixed non-empty history the recovery ratio computed for a
\* price p1 is at least the recovery ratio computed for a price p2 >= p1.
C13_RecoveryRatioMonotonic ==
    (/\ CalcDone(1) /\ CalcDone(2)
     /\ task[1].result.k = "ok" /\ task[2].result.k = "ok")
    => /\ task[1].df = task[2].df
       /\ task[1].price.v <= task[2].price.v
       /\ task[1].result.m.rr_raw.d = task[2].result.m.rr_raw.d
       /\ task[1].result.m.rr_raw.n >= task[2].result.m.rr_raw.n
       /\ task[1].result.m.recover_ratio.v >= task[2].result.m.recover_ratio.v

\* the deeper price gives a strictly higher ratio on the same history
C13_Witness ==
    /\ CalcDone(1) /\ CalcDone(2)
    /\ task[1].df.high = <<Num(120), Num(80)>>
    /\ task[1].price = Num(60) /\ task[2].price = Num(90)
    /\ task[1].result.m.recover_ratio = Num(10000)
    /\ task[2].result.m.recover_ratio = Num(5000)

\* ------------------------------------------------------------------------
\* The refresh timer
\* ------------------------------------------------------------------------
\* C20: at most one refresh timer is pending at any time: whoever schedules
\* the next refresh cancels the recorded one first, so pressing Apply while
\* a timer waits, and a timer that fires and re-arms itself, leave exactly
\* the timer recorded in after_id.
C20_OneTimerPending ==
    /\ Cardinality(timers) <= 1
    /\ timers # {} => timers = {after_id}

\* Apply was pressed, or a timer fired, twice: the third timer is the only
\* one pending
C20_Witness ==
    /\ after_id = 3
    /\ timers = {3}
    /\ batches = 2

\* ------------------------------------------------------------------------
\* One batch at a time
\* ------------------------------------------------------------------------
\* the batch-owned state of the window
BatchState == <<loading, status, tickers, task, rows, done_cnt, collector,
                table, batches, mainq>>
\* the rows collected and the rows shown name each ticker at most once, and
\* the rows collected belong to the tickers of the batch
RowsOfOneBatch ==
    /\ \A x, y \in 1..Len(table) : x # y => table[x].ticker # table[y].ticker
    /\ \A x, y \in 1..Len(rows) : x # y => rows[x].ticker # rows[y].ticker
    /\ \A x \in 1..Len(rows) : \E i \in Batch : rows[x].ticker = tickers[i]

\* C18: at most one batch is in flight: while loading is true, a call of
\* refresh_once from the timer, the Refresh Now button or Apply changes no
\* state of the batch; no step starts a batch, a collector thread or a worker
\* for a new list; and the rows collected and shown never mix two batches.
C18_OneBatchInFlight ==
    /\ []RowsOfOneBatch
    /\ [][loading =>
            /\ (RefreshNow \/ TimerFire \/ OnApply) => UNCHANGED BatchState
            /\ batches' = batches
            /\ collector = "idle" => collector' = "idle"
            /\ tickers' # tickers => ~loading'
            /\ \A i \in Slots : task[i].pc = "idle" => task'[i].pc = "idle"]_vars

\* one batch was started and a later request of the timer or of Apply found
\* loading true while a row was already collected
C18_Witness ==
    /\ loading
    /\ batches = 1
    /\ after_id = 3
    /\ collector = "collecting"
    /\ Len(tickers) = 3
    /\ Len(rows) = 1

\* ------------------------------------------------------------------------
\* Progress notifications
\* ------------------------------------------------------------------------
\* what the collector thread posts to the main loop in a step, if anything
Posted == IF Len(mainq') > Len(mainq) THEN <<mainq'[Len(mainq')]>> ELSE <<>>
Progressed(done, total) == [k |-> "status", s |-> Status("Loading...", done, total)]

\* C17: during a batch of N tickers exactly N progress notifications are
\* emitted, one per completed ticker, with completed counts 1, 2, ..., N in
\* that order and total N each time, whatever the completion order; the
\* result set is handed over only after the N/N notification, and the main
\* loop shows N/N before it renders the result.
C17_ProgressNotifications ==
    [][/\ done_cnt' # done_cnt =>
             \/ done_cnt' = 0
             \/ /\ done_cnt' = done_cnt + 1
                /\ done_cnt' <= Len(tickers)
                /\ Posted = <<Progressed(done_cnt + 1, Len(tickers))>>
       /\ \A x \in 1..Len(Posted) :
             /\ Posted[x].k = "status" =>
                   /\ Posted[x] = Progressed(done_cnt + 1, Len(tickers))
                   /\ done_cnt' = done_cnt + 1
             /\ Posted[x].k = "deliver" =>
                   /\ done_cnt = Len(tickers)
                   /\ done_cnt' = done_cnt
       /\ (batches' # batches /\ collector' = "collecting") => done_cnt' = 0
       /\ (loading /\ ~loading') =>
             status = Status("Loading...", Len(tickers), Len(tickers))]_vars

\* three tickers, the third completed first: 1/3, 2/3, 3/3 and then the
\* hand-over wait in the main loop's queue
C17_Witness ==
    /\ Len(tickers) = 3
    /\ Len(rows) = 3
    /\ rows[1].ticker = tickers[3]
    /\ mainq = <<Progressed(1, 3), Progressed(2, 3), Progressed(3, 3),
                 [k |-> "deliver", s |-> Status("Last update", 0, 0)]>>

\* ------------------------------------------------------------------------
\* The worker pool
\* ------------------------------------------------------------------------
\* C14: during a batch over a non-empty list of tickers the number of
\* per-ticker computations running at the same time never exceeds
\* min(MAX_WORKERS, number of tickers); the pool has at least one worker;
\* and every submitted ticker is eventually picked up.
C14_PoolBound ==
    /\ [](tickers # <<>> =>
            /\ Cardinality(Running) <= MAX_WORKERS
            /\ Cardinality(Running) <= Len(tickers)
            /\ max_workers(Len(tickers)) >= 1)
    /\ \A i \in Slots : (task[i].pc = "queued") ~> (task[i].pc # "queued")

\* three tickers: two computations run, the pool is full and the third
\* ticker waits
C14_Witness ==
    /\ Len(tickers) = 3
    /\ Cardinality(Running) = MAX_WORKERS
    /\ task[3].pc = "queued"

\* ------------------------------------------------------------------------
\* The loading flag
\* ------------------------------------------------------------------------
\* C19: whenever refresh_once has set loading to true, loading eventually
\* becomes false again: after the results are rendered, or within the call
\* when the ticker list is empty or the file is missing or unreadable; this
\* holds also when per-ticker computations fail.
C19_LoadingEventuallyCleared == loading ~> ~loading

\* ------------------------------------------------------------------------
\* Sorting the table
\* ------------------------------------------------------------------------
\* the column the table is sorted by: the heading clicked last, or the
\* recovery ratio of the first delivery
SortedBy == IF current_sort_col = NoCol THEN "recover_ratio" ELSE current_sort_col
MissingValue(col, m) == IsNumeric(col) /\ SortValue(col, m) = NaN

\* C15: sorting the table by any field, ascending or descending, places
\* every row whose sort value is missing after all rows that have a value,
\* both for the sort of a delivery and for the sort of a heading click.
C15_MissingSortedLast ==
    \A x, y \in 1..Len(table) :
        (x < y /\ MissingValue(SortedBy, table[x])) => MissingValue(SortedBy, table[y])

\* ------------------------------------------------------------------------
\* The history cache in the running program
\* ------------------------------------------------------------------------
\* the worker is inside get_history_df
InHistory(i) == task[i].pc \in {"hist", "fetch", "store"}

\* C21: in the running program no two workers execute get_history_df for
\* the same (ticker, adjusted) key at the same time: the tickers of a batch
\* are pairwise distinct, every worker passes adjusted = false, and no worker
\* of an earlier batch is left when a batch starts; hence no worker stores
\* over an entry that was stored after its own check.
C21_NoTwoWorkersOnOneKey ==
    /\ [](\A i, j \in Slots :
            (i # j /\ InHistory(i) /\ InHistory(j)) => KeyOf(i) # KeyOf(j))
    /\ [](\A x, y \in 1..Len(tickers) : x # y => tickers[x] # tickers[y])
    /\ [](\A i \in Slots : InHistory(i) =>
            /\ i \in Batch
            /\ task[i].ticker = tickers[i]
            /\ ~task[i].adjusted)
    /\ [][\A i \in Slots :
            (task[i].pc = "store" /\ task'[i].pc # "store") =>
                cache[KeyOf(i)] = task[i].cached]_vars

\* in the second batch two workers fetch at the same time, each for its own
\* ticker, the first over the entry the first batch stored
C21_Witness ==
    /\ batches = 2
    /\ task[1].pc = "fetch"
    /\ task[2].pc = "fetch"
    /\ cache[KeyOf(1)] # NoEntry

====
